---- MODULE Spec2Model ----
(***************************************************************************)
(* Model of the two serverless payment handlers of weselliphones:          *)
(*   - the crypto invoice handler (NOWPayments), src/unnamed/part_000      *)
(*   - the card/ACH session handler (Stripe), src/api/create-stripe-       *)
(*     session.js                                                          *)
(* One invocation is: a request arrives, the handler runs up to its single *)
(* awaited provider call (or replies before it), the provider call         *)
(* settles, the handler classifies the outcome and replies.                *)
(*                                                                         *)
(* JavaScript values are tagged records; a JavaScript string is a sequence *)
(* of chunks (the currency codes are spelled letter by letter so that      *)
(* toLowerCase/toUpperCase are computed, other texts are one chunk).       *)
(* The callback URLs built from the Origin/Referer header do not influence *)
(* any status, reply or call count and are left out of the payloads.       *)
(***************************************************************************)
EXTENDS Integers, Sequences, FiniteSets, TLC

(* ------------------------------ bounds -------------------------------- *)
MaxAmount == 2      \* pricing.subtotal ranges over 0..MaxAmount
MaxFee == 1         \* pricing.shipping / pricing.insurance over 0..MaxFee
MaxQuantity == 8    \* product.quantity ranges over 0..MaxQuantity
MaxBasePrice == 1   \* product.basePrice ranges over 1..MaxBasePrice

(* -------------------------- JavaScript values ------------------------- *)
Undefined == [t |-> "undefined"]
Null == [t |-> "null"]
NaN == [t |-> "NaN"]
Infinity == [t |-> "Infinity"]
Num(n) == [t |-> "number", v |-> n]
Str(s) == [t |-> "string", v |-> s]
Obj(fields) == [t |-> "object", f |-> fields]

\* JavaScript truthiness (the `!x` and `x || y` tests of both handlers)
Truthy(v) ==
  CASE v.t \in {"undefined", "null", "NaN"} -> FALSE
    [] v.t = "number" -> v.v # 0
    [] v.t = "string" -> Len(v.v) > 0
    [] OTHER -> TRUE

\* a property read `v.name` throws a TypeError exactly on undefined and null
CanRead(v) == v.t \notin {"undefined", "null"}

\* the value of `v.name` when the read does not throw
Prop(v, name) ==
  IF v.t = "object" /\ name \in DOMAIN v.f THEN v.f[name] ELSE Undefined

\* `a || b`
OrElse(a, b) == IF Truthy(a) THEN a ELSE b

IsString(v) == v.t = "string"

LowerChar(c) ==
  CASE c = "U" -> "u" [] c = "S" -> "s" [] c = "D" -> "d"
    [] c = "E" -> "e" [] c = "R" -> "r" [] OTHER -> c

UpperChar(c) ==
  CASE c = "u" -> "U" [] c = "s" -> "S" [] c = "d" -> "D"
    [] c = "e" -> "E" [] c = "r" -> "R" [] OTHER -> c

\* String.prototype.toLowerCase / toUpperCase on a string value
ToLowerCase(s) == Str([i \in DOMAIN s.v |-> LowerChar(s.v[i])])
ToUpperCase(s) == Str([i \in DOMAIN s.v |-> UpperChar(s.v[i])])

\* Math.round of the fraction n/d (d > 0, n >= 0): halves round up
MathRoundM(n, d) == n \div d
MathRound(n, d) == (2 * n + d) \div (2 * d)

(* ------------------------------ errors -------------------------------- *)
None == "none"
Err(name, code, cause, message) ==
  [name |-> name, code |-> code, cause |-> cause, message |-> message]

\* the TypeError raised by the handler's own code (property read of
\* undefined, call of a missing method)
TypeError ==
  Err("TypeError", None, None, Str(<< "Cannot read properties of undefined" >>))

NetworkCodes == {"ENOTFOUND", "ECONNREFUSED", "ETIMEDOUT"}

\* what the awaited fetch can reject with: a node-fetch style FetchError
\* carrying the system code, the platform fetch's TypeError with the system
\* error as its cause, a bare system error, an abort with an empty message
FetchErrors ==
  { Err("FetchError", c, None, Str(<< "request failed" >>)) :
      c \in NetworkCodes \cup {None} }
    \cup { Err("TypeError", None, c, Str(<< "fetch failed" >>)) :
             c \in NetworkCodes }
    \cup { Err("Error", c, None, Str(<< "connect" >>)) : c \in NetworkCodes }
    \cup { Err("AbortError", None, None, Str(<< >>)) }

\* what the awaited Stripe SDK call can reject with: its connection error
\* (the system error is the cause), a rejected parameter, a rejected key,
\* a bare system error, an error with an empty message
StripeErrors ==
  { Err("StripeConnectionError", None, c,
        Str(<< "An error occurred with our connection to Stripe" >>)) :
      c \in {"ENOTFOUND", "ETIMEDOUT"} }
    \cup { Err("StripeInvalidRequestError", "parameter_invalid_integer", None,
               Str(<< "Invalid integer" >>)),
           Err("StripeAuthenticationError", None, None,
               Str(<< "Invalid API Key provided" >>)),
           Err("Error", "ECONNREFUSED", None, Str(<< "connect" >>)),
           Err("Error", None, None, Str(<< >>)) }

\* DNS not found, connection refused, timeout
NetworkClass(e) ==
  e.code \in NetworkCodes \/ e.cause \in NetworkCodes \/ e.name = "FetchError"

(* ------------------------------ replies ------------------------------- *)
EmptyBody == [kind |-> "empty"]
\* { error: <fixed text>, details }
ErrorBody(error, details) ==
  [kind |-> "error", error |-> Str(<< error >>), details |-> details]
Reply(status, body) == [status |-> status, body |-> body]

CorsHeaders ==
  { "Access-Control-Allow-Origin", "Access-Control-Allow-Methods",
    "Access-Control-Allow-Headers" }

\* outcomes of a synchronous stretch of a handler
Return(reply) == [k |-> "return", reply |-> reply]
Throw(e) == [k |-> "throw", err |-> e]
Await(payload) == [k |-> "await", payload |-> payload]

\* the method checks made before the try block; <<>> lets the request in
MethodGateM(method) ==
  IF method = "OPTIONS" THEN << Reply(204, EmptyBody) >>
  ELSE IF method # "POST"
    THEN << Reply(405, ErrorBody("Method not allowed", Undefined)) >>
  ELSE << >>
MethodGate(method) ==
  IF method = "OPTIONS" THEN << Reply(200, EmptyBody) >>
  ELSE IF method # "POST"
    THEN << Reply(405, ErrorBody("Method not allowed", Undefined)) >>
  ELSE << >>

MissingFormData == Reply(400, ErrorBody("Missing required form data", Undefined))

ConfigErrorM == Reply(503, ErrorBody("Payment system configuration error", Undefined))
ConfigError == Reply(500, ErrorBody("Payment system configuration error", Undefined))


(* ------------------- crypto invoice handler (NOWPayments) ------------- *)
\* the try block up to the awaited fetch: destructuring of req.body, local
\* validation, credential check, construction of the invoice data
CryptoTry(body, env) ==
  IF ~CanRead(body) THEN Throw(TypeError)
  ELSE
    LET formData == Prop(body, "formData")
        pricing == Prop(formData, "pricing")
        currency == Prop(pricing, "currency")
    IN  IF ~Truthy(formData) \/ ~Truthy(pricing)
             \/ ~Truthy(Prop(formData, "product"))
             \/ ~Truthy(Prop(formData, "customer"))
          THEN Return(MissingFormData)
        ELSE IF ~env.key THEN Return(ConfigError)
        ELSE IF ~IsString(currency) THEN Throw(TypeError)
        ELSE Await([ price_amount |-> Prop(pricing, "total"),
                     price_currency |-> ToLowerCase(currency),
                     order_id |-> Prop(formData, "orderRef") ])

\* response.ok
ResponseOk(status) == status >= 200 /\ status <= 299

\* JSON.parse of the response text: a text is either not JSON (the parse
\* throws) or the serialisation of a value
JsonParse(text) ==
  IF text.wellFormed THEN [ok |-> TRUE, value |-> text.value]
  ELSE [ok |-> FALSE]

InvoiceBodyM(data) ==
  [ kind |-> "invoice",
    invoice_url |-> Prop(data, "invoice_url"),
    invoice_id |-> Prop(data, "order_id"),
    order_id |-> Prop(data, "order_id"),
    created_at |-> Prop(data, "created_at"),
    pay_address |-> Prop(data, "pay_address"),
    pay_amount |-> Prop(data, "pay_amount"),
    pay_currency |-> Prop(data, "pay_currency") ]
InvoiceBody(data) ==
  [ kind |-> "invoice",
    invoice_url |-> Prop(data, "invoice_url"),
    invoice_id |-> Prop(data, "id"),
    order_id |-> Prop(data, "order_id"),
    created_at |-> Prop(data, "created_at"),
    pay_address |-> Prop(data, "pay_address"),
    pay_amount |-> Prop(data, "pay_amount"),
    pay_currency |-> Prop(data, "pay_currency") ]

GenericUpstreamError(status, data) ==
  Reply(status, ErrorBody(
          "Failed to create crypto payment",
          OrElse(Prop(data, "message"),
                 Str(<< "Please try again or contact support" >>))))

\* the branch taken on a non-2xx upstream status, data being parsed
CryptoNotOkM(status, data) ==
  IF ~CanRead(data) THEN Throw(TypeError)
  ELSE IF status = 400
    THEN Return(Reply(400, ErrorBody(
           "Invalid payment details. Please check your information.",
           Prop(data, "message"))))
  ELSE Return(GenericUpstreamError(status, data))
CryptoNotOk(status, data) ==
  IF status = 401
    THEN Return(Reply(500, ErrorBody(
           "Payment system authentication failed. Please contact support.",
           Undefined)))
  ELSE IF ~CanRead(data) THEN Throw(TypeError)
  ELSE IF status = 400
    THEN Return(Reply(400, ErrorBody(
           "Invalid payment details. Please check your information.",
           OrElse(Prop(data, "message"), Str(<< "Invalid request parameters" >>)))))
  ELSE Return(GenericUpstreamError(status, data))

\* the rest of the try block once the fetch has produced a response
CryptoClassify(response) ==
  LET parsed == JsonParse(response.text) IN
  IF ~parsed.ok
    THEN Return(Reply(500, ErrorBody("Invalid response from payment processor",
                                     Undefined)))
  ELSE IF ~ResponseOk(response.status)
    THEN CryptoNotOk(response.status, parsed.value)
  ELSE IF ~CanRead(parsed.value) THEN Throw(TypeError)
  ELSE IF ~Truthy(Prop(parsed.value, "invoice_url"))
    THEN Return(Reply(500, ErrorBody("Invalid payment response received",
                                     Undefined)))
  ELSE Return(Reply(200, InvoiceBody(parsed.value)))

\* the catch block: the replies it sends for a caught exception
CryptoCatchM(e, env) ==
  IF e.name = "FetchError" \/ e.code = "ENOTFOUND"
    THEN << Reply(503, ErrorBody(
              "Payment service temporarily unavailable. Please try again.",
              Undefined)) >>
  ELSE IF e.code = "ETIMEDOUT" \/ e.code = "ECONNREFUSED"
    THEN << Reply(504, ErrorBody(
              "Connection timeout. Please check your internet connection and try again.",
              Undefined)) >>
  ELSE << Reply(500, ErrorBody(
              "Failed to process crypto payment. Please try again.",
              IF env.dev THEN e.message ELSE Undefined)) >>
CryptoCatch(e, env) ==
  IF e.name = "FetchError" \/ e.code = "ENOTFOUND"
    THEN << Reply(503, ErrorBody(
              "Payment service temporarily unavailable. Please try again.",
              Undefined)) >>
  ELSE IF e.code = "ETIMEDOUT" \/ e.code = "ECONNREFUSED"
    THEN << Reply(503, ErrorBody(
              "Connection timeout. Please check your internet connection and try again.",
              Undefined)) >>
  ELSE << Reply(500, ErrorBody(
              "Failed to process crypto payment. Please try again.",
              IF env.dev THEN e.message ELSE Undefined)) >>

(* --------------------- card/ACH session handler (Stripe) -------------- *)
\* `a * b` on numbers; undefined operands give NaN
JsMul(a, b) ==
  IF a.t = "number" /\ b.t = "number" THEN Num(a.v * b.v) ELSE NaN

\* Math.round((subtotal / quantity) * 100)
PerItemPrice(subtotal, quantity) ==
  IF subtotal.t # "number" \/ quantity.t # "number" THEN NaN
  ELSE IF quantity.v = 0
    THEN (IF subtotal.v = 0 THEN NaN ELSE Infinity)
  ELSE Num(MathRound(subtotal.v * 100, quantity.v))

\* `fee && fee > 0`
FeeCharged(fee) == Truthy(fee) /\ fee.t = "number" /\ fee.v > 0

LineItem(item, currency, unit_amount, quantity) ==
  [ item |-> item, currency |-> currency, unit_amount |-> unit_amount,
    quantity |-> quantity ]

\* the line_items array: the product item, then the optional shipping and
\* insurance items (currency is a string here)
LineItems(pricing, product, currency) ==
  LET quantity == Prop(product, "quantity")
      subtotal == OrElse(Prop(pricing, "subtotal"),
                         JsMul(Prop(product, "basePrice"), quantity))
      shipping == Prop(pricing, "shipping")
      insurance == Prop(pricing, "insurance")
  IN  << LineItem("product", ToLowerCase(currency),
                  PerItemPrice(subtotal, quantity), OrElse(quantity, Num(1))) >>
      \o (IF FeeCharged(shipping)
            THEN << LineItem("shipping", ToLowerCase(currency),
                             Num(MathRound(shipping.v * 100, 1)), Num(1)) >>
            ELSE << >>)
      \o (IF FeeCharged(insurance)
            THEN << LineItem("insurance", ToLowerCase(currency),
                             Num(MathRound(insurance.v * 100, 1)), Num(1)) >>
            ELSE << >>)

USD == Str(<< "U", "S", "D" >>)
ACH == Str(<< "ach" >>)

\* the ACH branch rejects every currency other than USD
AchRejectsM(currency) == FALSE
AchRejects(currency) == ToUpperCase(currency) # USD

\* the try block up to the awaited stripe.checkout.sessions.create
StripeTry(body, env) ==
  IF ~CanRead(body) THEN Throw(TypeError)
  ELSE
    LET formData == Prop(body, "formData")
        paymentType == IF Prop(body, "paymentType") = Undefined
                         THEN Str(<< "card" >>) ELSE Prop(body, "paymentType")
        pricing == Prop(formData, "pricing")
        product == Prop(formData, "product")
        currency == Prop(pricing, "currency")
    IN  IF ~Truthy(formData) \/ ~Truthy(pricing) \/ ~Truthy(product)
          THEN Return(MissingFormData)
        ELSE IF ~env.key THEN Return(ConfigError)
        ELSE IF ~IsString(currency) THEN Throw(TypeError)
        ELSE IF paymentType = ACH /\ AchRejects(currency)
          THEN Return(Reply(400, ErrorBody(
                 "ACH payments only support USD currency.", Undefined)))
        ELSE Await([ mode |-> "payment",
                     line_items |-> LineItems(pricing, product, currency),
                     payment_method_types |->
                       IF paymentType = ACH THEN << "us_bank_account" >>
                       ELSE << "card" >> ])

SessionBody(session) ==
  [kind |-> "session", url |-> session.url, sessionId |-> session.id]

\* the catch block: every caught exception is answered 400 with the
\* exception's message (type, param and raw.message are copied from the
\* exception object and carry no decision)
StripeCatchM(e) == << >>
StripeCatch(e) ==
  << Reply(400, [ kind |-> "error",
                  error |-> OrElse(e.message, Str(<< "Payment processing failed" >>)),
                  details |-> Undefined ]) >>

(* ------------------------------ inputs -------------------------------- *)
Methods == {"OPTIONS", "POST", "GET"}

Currencies ==
  { Undefined, Str(<< "u", "s", "d" >>), USD, Str(<< "U", "s", "d" >>),
    Str(<< "e", "u", "r" >>) }

OrderRef == Str(<< "REF-1" >>)

Present(object) == {Undefined, object}

\* request bodies of the crypto endpoint: no body, null, and objects whose
\* formData, pricing, product, customer and currency are present or not
CryptoBodies ==
  { Undefined, Null }
    \cup { Obj([formData |-> fd]) : fd \in {Undefined} \cup
          { Obj([ pricing |-> p, product |-> pr, customer |-> cu,
                  orderRef |-> OrderRef ]) :
              p \in {Undefined} \cup
                    { Obj([total |-> Num(MaxAmount), currency |-> c]) :
                        c \in Currencies },
              pr \in Present(Obj([name |-> Str(<< "iPhone" >>)])),
              cu \in Present(Obj([email |-> Str(<< "a@b.c" >>)])) } }

OptNum(lo, hi) == {Undefined} \cup { Num(n) : n \in lo..hi }

StripePricings ==
  { Obj([currency |-> c, subtotal |-> st, shipping |-> sh, insurance |-> ins]) :
      c \in Currencies, st \in OptNum(0, MaxAmount),
      sh \in OptNum(0, MaxFee), ins \in OptNum(0, MaxFee) }

StripeProducts ==
  { Obj([quantity |-> q, basePrice |-> bp]) :
      q \in OptNum(0, MaxQuantity), bp \in OptNum(1, MaxBasePrice) }

PaymentTypes == { Undefined, Str(<< "card" >>), ACH }

\* request bodies of the card/ACH endpoint
StripeBodies ==
  { Undefined }
    \cup { Obj([formData |-> fd, paymentType |-> pt]) :
          fd \in {Undefined} \cup
            { Obj([pricing |-> p, product |-> pr, orderRef |-> OrderRef]) :
                p \in {Undefined} \cup StripePricings,
                pr \in {Undefined} \cup StripeProducts },
          pt \in PaymentTypes }

Requests(bodies) == [method : Methods, body : bodies]

\* process.env as the handlers read it: is the provider credential set, is
\* NODE_ENV 'development'
CryptoEnvs == [key : BOOLEAN, dev : BOOLEAN]
StripeEnvs == [key : BOOLEAN, dev : {FALSE}]

NotJson == [wellFormed |-> FALSE, value |-> Undefined]
Json(v) == [wellFormed |-> TRUE, value |-> v]

\* the JSON objects the invoice API is taken to answer with
InvoiceObjects ==
  { Obj([ message |-> m, invoice_url |-> u, id |-> i, order_id |-> o,
          created_at |-> Str(<< "2024-01-01T00:00:00Z" >>),
          pay_address |-> pay[1], pay_amount |-> pay[2],
          pay_currency |-> pay[3] ]) :
      m \in { Undefined, Str(<< >>), Str(<< "bad amount" >>) },
      u \in { Undefined, Str(<< >>), Str(<< "https://pay.example/i/41" >>) },
      i \in Present(Num(41)),
      o \in Present(OrderRef),
      pay \in { << Undefined, Undefined, Undefined >>,
                << Str(<< "bc1q" >>), Num(3), Str(<< "btc" >>) >> } }

ResponseTexts ==
  { NotJson, Json(Null), Json(Num(5)), Json(Obj([error |-> Str(<< "x" >>)])) }
    \cup { Json(o) : o \in InvoiceObjects }

UpstreamStatuses == {200, 201, 400, 401, 404, 502}

\* how the awaited fetch settles
FetchOutcomes ==
  { [kind |-> "response", status |-> st, text |-> tx] :
      st \in UpstreamStatuses, tx \in ResponseTexts }
    \cup { [kind |-> "throw", err |-> e] : e \in FetchErrors }

\* how the awaited sessions.create settles
CreateOutcomes ==
  { [kind |-> "session", url |-> Str(<< "https://checkout.example/c/1" >>),
     id |-> Str(<< "cs_1" >>)] }
    \cup { [kind |-> "throw", err |-> e] : e \in StripeErrors }

(* ------------------------------- state -------------------------------- *)
VARIABLES
  pc,        \* "idle", "awaiting" (the provider call is in flight), "done"
  handler,   \* the endpoint invoked: "crypto", "stripe" ("none" when idle)
  req,       \* the request being handled
  env,       \* process.env during the invocation
  headers,   \* names of the response headers set
  bodyRead,  \* has req.body been read
  sent,      \* the replies sent on res, in order
  outbound,  \* the payloads of the provider calls made, in order
  upstream,  \* how the provider call settled (<<>> until it does)
  thrown     \* the exceptions caught by the handler's catch block

vars == << pc, handler, req, env, headers, bodyRead, sent, outbound,
           upstream, thrown >>

NoRequest == [method |-> "none", body |-> Undefined]
NoEnv == [key |-> FALSE, dev |-> FALSE]

Init ==
  /\ pc = "idle"
  /\ handler = "none"
  /\ req = NoRequest
  /\ env = NoEnv
  /\ headers = {}
  /\ bodyRead = FALSE
  /\ sent = << >>
  /\ outbound = << >>
  /\ upstream = << >>
  /\ thrown = << >>

\* a request arrives and the handler h runs until it replies or awaits its
\* provider call; out is the outcome of its try block, caught what its
\* catch block sends for the exception of a throwing outcome
Enter(h, r, e, out, caught) ==
  /\ pc = "idle"
  /\ handler' = h
  /\ req' = r
  /\ env' = e
  /\ headers' = CorsHeaders
  /\ upstream' = << >>
  /\ IF MethodGate(r.method) # << >>
       THEN /\ sent' = MethodGate(r.method)
            /\ bodyRead' = FALSE
            /\ outbound' = << >>
            /\ thrown' = << >>
            /\ pc' = "done"
       ELSE /\ bodyRead' = TRUE
            /\ sent' = CASE out.k = "return" -> << out.reply >>
                          [] out.k = "throw" -> caught
                          [] OTHER -> << >>
            /\ thrown' = IF out.k = "throw" THEN << out.err >> ELSE << >>
            /\ outbound' = IF out.k = "await" THEN << out.payload >> ELSE << >>
            /\ pc' = IF out.k = "await" THEN "awaiting" ELSE "done"

\* the provider call settles and the handler h runs to its reply; out is
\* the outcome of the rest of its try block
Resume(h, o, out, caught) ==
  /\ pc = "awaiting"
  /\ handler = h
  /\ upstream' = << o >>
  /\ sent' = sent \o (IF out.k = "return" THEN << out.reply >> ELSE caught)
  /\ thrown' = IF out.k = "throw" THEN << out.err >> ELSE << >>
  /\ pc' = "done"
  /\ UNCHANGED << handler, req, env, headers, bodyRead, outbound >>

\* POST/OPTIONS/... on the crypto endpoint
CryptoRequest ==
  /\ pc = "idle"
  /\ \E r \in Requests(CryptoBodies), e \in CryptoEnvs :
       LET out == CryptoTry(r.body, e) IN
       Enter("crypto", r, e, out,
             IF out.k = "throw" THEN CryptoCatch(out.err, e) ELSE << >>)

\* the awaited fetch settles and the crypto handler finishes
CryptoFetchSettles ==
  /\ pc = "awaiting" /\ handler = "crypto"
  /\ \E o \in FetchOutcomes :
       LET out == IF o.kind = "throw" THEN Throw(o.err)
                  ELSE CryptoClassify(o) IN
       Resume("crypto", o, out,
              IF out.k = "throw" THEN CryptoCatch(out.err, env) ELSE << >>)

\* POST/OPTIONS/... on the card/ACH endpoint
StripeRequest ==
  /\ pc = "idle"
  /\ \E r \in Requests(StripeBodies), e \in StripeEnvs :
       LET out == StripeTry(r.body, e) IN
       Enter("stripe", r, e, out,
             IF out.k = "throw" THEN StripeCatch(out.err) ELSE << >>)

\* the awaited sessions.create settles and the card/ACH handler finishes
StripeCreateSettles ==
  /\ pc = "awaiting" /\ handler = "stripe"
  /\ \E o \in CreateOutcomes :
       LET out == IF o.kind = "throw" THEN Throw(o.err)
                  ELSE Return(Reply(200, SessionBody(o))) IN
       Resume("stripe", o, out,
              IF out.k = "throw" THEN StripeCatch(out.err) ELSE << >>)

\* the invocation is over; nothing of it outlives the request
Complete ==
  /\ pc = "done"
  /\ pc' = "idle"
  /\ handler' = "none"
  /\ req' = NoRequest
  /\ env' = NoEnv
  /\ headers' = {}
  /\ bodyRead' = FALSE
  /\ sent' = << >>
  /\ outbound' = << >>
  /\ upstream' = << >>
  /\ thrown' = << >>

Next ==
  \/ CryptoRequest
  \/ CryptoFetchSettles
  \/ StripeRequest
  \/ StripeCreateSettles
  \/ Complete

Spec == Init /\ [][Next]_vars

\* an awaited provider call settles: it resolves or rejects
FairSpec ==
  Spec /\ WF_vars(CryptoFetchSettles) /\ WF_vars(StripeCreateSettles)

(* ----------------------- vocabulary of the claims --------------------- *)
ReqFormData == Prop(req.body, "formData")
ReqPricing == Prop(ReqFormData, "pricing")
ReqProduct == Prop(ReqFormData, "product")
ReqCurrency == Prop(ReqPricing, "currency")

IsPost == pc # "idle" /\ req.method = "POST"

\* the body lacks formData, or formData lacks pricing or product
LacksRequired ==
  ReqFormData = Undefined \/ ReqPricing = Undefined \/ ReqProduct = Undefined

\* the form data passes the invoked handler's local validation
PassesValidation ==
  /\ ~LacksRequired
  /\ handler = "crypto" => Prop(ReqFormData, "customer") # Undefined

\* exactly one reply was sent and it has this status
Answered(status) == Len(sent) = 1 /\ sent[1].status = status

AnsweredError(status, text) ==
  /\ Answered(status)
  /\ sent[1].body.kind = "error"
  /\ sent[1].body.error = Str(<< text >>)

\* the provider call returned an HTTP response with this status
UpstreamStatus(status) ==
  /\ pc = "done" /\ Len(upstream) = 1
  /\ upstream[1].kind = "response"
  /\ upstream[1].status = status

\* the value the upstream body parses to (Undefined when it does not parse)
UpstreamData == upstream[1].text.value
UpstreamParses == upstream[1].text.wellFormed

\* a currency spelling of USD in any letter case
IsUsd(c) ==
  /\ c.t = "string" /\ Len(c.v) = 3
  /\ c.v[1] \in {"u", "U"} /\ c.v[2] \in {"s", "S"} /\ c.v[3] \in {"d", "D"}

\* round(s / q * 100) for naturals s and q > 0: the integer k with
\* k - 1/2 <= 100 s / q < k + 1/2
RoundedCents(s, q) ==
  CHOOSE k \in 0..(100 * s + 1) :
    (2 * k - 1) * q <= 200 * s /\ 200 * s < (2 * k + 1) * q

\* the JavaScript value of Math.round(s / q * 100)
RoundedUnit(s, q) ==
  IF s.t # "number" \/ q.t # "number" THEN NaN
  ELSE IF q.v = 0 THEN (IF s.v = 0 THEN NaN ELSE Infinity)
  ELSE Num(RoundedCents(s.v, q.v))

\* the items of the given kind among the line items sent to the provider
ItemsOf(kind) ==
  { i \in DOMAIN outbound[1].line_items : outbound[1].line_items[i].item = kind }

\* a fee (shipping, insurance) is sent as exactly one item of round(fee*100)
\* when it is present and positive, and as no item otherwise
FeeItemRight(kind, fee) ==
  IF fee.t = "number" /\ fee.v > 0
    THEN /\ Cardinality(ItemsOf(kind)) = 1
         /\ \A i \in ItemsOf(kind) :
              outbound[1].line_items[i].unit_amount = Num(fee.v * 100)
    ELSE ItemsOf(kind) = {}

ReachedCreate == pc # "idle" /\ handler = "stripe" /\ Len(outbound) = 1

(* ------------------------------- claims ------------------------------- *)
\* C1 (as stated): on both endpoints a POST whose body lacks formData, or
\* whose formData lacks pricing or product, a POST without body included,
\* is answered 400 and no provider call is made, whatever the credential.
C1_MissingFormData400 ==
  (pc = "done" /\ IsPost /\ LacksRequired)
    => (Answered(400) /\ outbound = << >>)

\* C2 (as stated): every request handled while the credential is unset is
\* answered 500 'Payment system configuration error' and no provider call
\* is made.
C2_EveryRequest500 ==
  (pc = "done" /\ ~env.key)
    => ( /\ AnsweredError(500, "Payment system configuration error")
         /\ outbound = << >> )

\* C2 (amended): while the credential is unset no request leads to a
\* provider call, and every POST whose form data passes the handler's local
\* validation is answered 500 'Payment system configuration error'.
C2_UnsetCredential ==
  (pc # "idle" /\ ~env.key)
    => ( /\ outbound = << >>
         /\ pc = "done"
         /\ (IsPost /\ PassesValidation)
              => AnsweredError(500, "Payment system configuration error") )

C2_Witness ==
  /\ pc = "done" /\ handler = "stripe" /\ ~env.key
  /\ IsPost /\ PassesValidation
  /\ Answered(500)

\* C3 (as stated): on either endpoint, when the provider call fails with a
\* network-class failure (DNS not found, connection refused, timeout)
\* the POST is answered 503.
C3_NetworkFailure503 ==
  (pc = "done" /\ Len(upstream) = 1 /\ upstream[1].kind = "throw"
     /\ NetworkClass(upstream[1].err))
    => Answered(503)

\* C4 (as stated): crypto handler, upstream 401 with any body gives 500
\* with the authentication-failed message; upstream 400 with any body gives
\* 400 whose details is the upstream message.
C4_AnyBody ==
  /\ (handler = "crypto" /\ UpstreamStatus(401))
       => AnsweredError(500,
            "Payment system authentication failed. Please contact support.")
  /\ (handler = "crypto" /\ UpstreamStatus(400))
       => ( /\ AnsweredError(400,
                 "Invalid payment details. Please check your information.")
            /\ sent[1].body.details = Prop(UpstreamData, "message") )

\* C4 (amended): crypto handler, upstream 401 with a body that parses as
\* JSON gives 500 with the authentication-failed message; upstream 400 with
\* a body that parses to a non-null value gives 400 whose details is the
\* upstream message when that is a non-empty string and 'Invalid request
\* parameters' otherwise; a 401 or 400 whose body does not parse gives 500
\* 'Invalid response from payment processor', a 400 whose body is null 500.
C4_AuthAndValidation ==
  /\ (handler = "crypto" /\ UpstreamStatus(401) /\ UpstreamParses)
       => AnsweredError(500,
            "Payment system authentication failed. Please contact support.")
  /\ (handler = "crypto" /\ UpstreamStatus(400) /\ UpstreamParses
        /\ UpstreamData # Null)
       => ( /\ AnsweredError(400,
                 "Invalid payment details. Please check your information.")
            /\ sent[1].body.details =
                 (IF Prop(UpstreamData, "message") \in {Undefined, Str(<< >>)}
                    THEN Str(<< "Invalid request parameters" >>)
                    ELSE Prop(UpstreamData, "message")) )
  /\ (handler = "crypto" /\ (UpstreamStatus(400) \/ UpstreamStatus(401))
        /\ ~UpstreamParses)
       => AnsweredError(500, "Invalid response from payment processor")
  /\ (handler = "crypto" /\ UpstreamStatus(400) /\ UpstreamParses
        /\ UpstreamData = Null)
       => Answered(500)

C4_Witness ==
  /\ handler = "crypto" /\ UpstreamStatus(400) /\ UpstreamParses
  /\ Prop(UpstreamData, "message") = Str(<< "bad amount" >>)
  /\ Answered(400)
  /\ sent[1].body.details = Str(<< "bad amount" >>)

\* the passed-through fields of the 200 reply equal the upstream fields
PassedThrough ==
  /\ sent[1].body.kind = "invoice"
  /\ sent[1].body.invoice_url = Prop(UpstreamData, "invoice_url")
  /\ sent[1].body.invoice_id = Prop(UpstreamData, "id")
  /\ sent[1].body.order_id = Prop(UpstreamData, "order_id")
  /\ sent[1].body.created_at = Prop(UpstreamData, "created_at")
  /\ sent[1].body.pay_address = Prop(UpstreamData, "pay_address")
  /\ sent[1].body.pay_amount = Prop(UpstreamData, "pay_amount")
  /\ sent[1].body.pay_currency = Prop(UpstreamData, "pay_currency")

Upstream2xxParsed ==
  /\ handler = "crypto"
  /\ \E st \in 200..299 : UpstreamStatus(st)
  /\ UpstreamParses

\* C5 (as stated): crypto handler, 2xx upstream: a parsed body containing
\* invoice_url gives 200 with the fields passed through, a parsed body
\* lacking invoice_url (a non-object such as null included) gives 500.
C5_ContainsInvoiceUrl ==
  Upstream2xxParsed
    => IF Prop(UpstreamData, "invoice_url") # Undefined
         THEN Answered(200) /\ PassedThrough
         ELSE Answered(500)

\* C5 (amended): crypto handler, 2xx upstream: a parsed body whose
\* invoice_url is a non-empty string gives 200 with the fields passed
\* through; a parsed body whose invoice_url is absent or empty (a
\* non-object such as null included) gives 500.
C5_InvoiceMapping ==
  Upstream2xxParsed
    => IF Prop(UpstreamData, "invoice_url") \notin {Undefined, Str(<< >>)}
         THEN Answered(200) /\ PassedThrough
         ELSE Answered(500)

C5_Witness ==
  /\ Upstream2xxParsed
  /\ Prop(UpstreamData, "invoice_url") = Str(<< "https://pay.example/i/41" >>)
  /\ Prop(UpstreamData, "id") = Num(41)
  /\ Prop(UpstreamData, "order_id") = OrderRef
  /\ Prop(UpstreamData, "pay_amount") = Num(3)
  /\ Answered(200)

\* C6 (as stated): every error reply to a POST has a status in
\* {400, 500, 503}, whatever the upstream status, body or exception.
C6_ErrorStatusSet ==
  (pc = "done" /\ IsPost)
    => \A i \in DOMAIN sent :
         sent[i].body.kind = "error" => sent[i].status \in {400, 500, 503}

\* C6 (amended): every error reply to a POST has a status in
\* {400, 500, 503}, except that the crypto handler passes on the upstream's
\* own status when it is non-2xx, neither 400 nor 401, and the body parses
\* to a non-null value; an upstream 401 is never passed on as 401.
C6_ErrorStatuses ==
  (pc = "done" /\ IsPost)
    => \A i \in DOMAIN sent :
         sent[i].body.kind = "error"
           => /\ sent[i].status # 401
              /\ \/ sent[i].status \in {400, 500, 503}
                 \/ /\ handler = "crypto"
                    /\ UpstreamStatus(sent[i].status)
                    /\ sent[i].status \notin 200..299
                    /\ UpstreamParses /\ UpstreamData # Null

C6_Witness ==
  /\ handler = "crypto" /\ IsPost
  /\ pc = "done" /\ Len(upstream) = 1 /\ upstream[1].kind = "throw"
  /\ upstream[1].err.code = "ETIMEDOUT"
  /\ Answered(503)

\* C7: every invocation ends having sent exactly one reply and having made
\* at most one provider call: while the provider call is in flight nothing
\* has been sent and one call has been made, a caught exception is answered,
\* and an invocation whose provider call settles reaches its end.
C7_OneReplyOneCall ==
  /\ [](pc = "done" => (Len(sent) = 1 /\ Len(outbound) <= 1))
  /\ [](pc = "awaiting" => (Len(sent) = 0 /\ Len(outbound) = 1))
  /\ [](pc = "done" => (Len(upstream) = Len(outbound) /\ Len(thrown) <= 1))
  /\ ((pc = "awaiting") ~> (pc = "done"))

C7_Witness ==
  /\ pc = "done" /\ handler = "stripe"
  /\ Len(thrown) = 1 /\ Len(outbound) = 1 /\ Len(sent) = 1

\* C8: card/ACH handler, a POST with valid form data, the credential set,
\* paymentType 'ach' and a currency that is not USD in any letter case is
\* answered 400 and sessions.create is never called.
C8_AchNonUsd ==
  (handler = "stripe" /\ IsPost /\ PassesValidation /\ env.key
     /\ Prop(req.body, "paymentType") = Str(<< "ach" >>)
     /\ ~IsUsd(ReqCurrency))
    => (pc = "done" /\ Answered(400) /\ outbound = << >>)

C8_Witness ==
  /\ handler = "stripe" /\ IsPost /\ PassesValidation /\ env.key
  /\ Prop(req.body, "paymentType") = Str(<< "ach" >>)
  /\ ReqCurrency = Str(<< "e", "u", "r" >>)
  /\ AnsweredError(400, "ACH payments only support USD currency.")

\* C9: on either endpoint OPTIONS is answered 200 with an empty body and
\* any other non-POST method 405; in both cases the three CORS headers are
\* set, the body is not read and no provider call is made.
C9_MethodAlone ==
  (pc # "idle" /\ req.method # "POST")
    => ( /\ pc = "done"
         /\ IF req.method = "OPTIONS"
              THEN sent = << [status |-> 200, body |-> [kind |-> "empty"]] >>
              ELSE Answered(405)
         /\ headers = { "Access-Control-Allow-Origin",
                        "Access-Control-Allow-Methods",
                        "Access-Control-Allow-Headers" }
         /\ ~bodyRead
         /\ outbound = << >> )

C9_Witness ==
  /\ pc = "done" /\ req.method = "OPTIONS"
  /\ ReqFormData # Undefined /\ ~env.key
  /\ Answered(200)

\* C10 (as stated): the line items sent to the provider are one product
\* item with unit_amount round(pricing.subtotal / product.quantity * 100)
\* and quantity product.quantity, one shipping item of round(shipping*100)
\* exactly when shipping is present and positive, one insurance item
\* likewise, and nothing else.
C10_FromPricingSubtotal ==
  ReachedCreate
    => /\ Cardinality(ItemsOf("product")) = 1
       /\ \A i \in ItemsOf("product") :
            /\ outbound[1].line_items[i].unit_amount =
                 RoundedUnit(Prop(ReqPricing, "subtotal"),
                             Prop(ReqProduct, "quantity"))
            /\ outbound[1].line_items[i].quantity = Prop(ReqProduct, "quantity")
       /\ FeeItemRight("shipping", Prop(ReqPricing, "shipping"))
       /\ FeeItemRight("insurance", Prop(ReqPricing, "insurance"))
       /\ \A i \in DOMAIN outbound[1].line_items :
            outbound[1].line_items[i].item \in {"product", "shipping", "insurance"}

\* the subtotal the handler prices from: pricing.subtotal when it is
\* present and non-zero, otherwise product.basePrice * product.quantity
PricedSubtotal ==
  LET st == Prop(ReqPricing, "subtotal")
      bp == Prop(ReqProduct, "basePrice")
      q == Prop(ReqProduct, "quantity")
  IN  IF st.t = "number" /\ st.v # 0 THEN st
      ELSE IF bp.t = "number" /\ q.t = "number" THEN Num(bp.v * q.v)
      ELSE NaN

\* C10 (amended): as stated, except that the product item is priced from
\* pricing.subtotal only when that is present and non-zero and from
\* product.basePrice * product.quantity otherwise, and that its quantity is
\* 1 when product.quantity is absent or 0.
C10_LineItems ==
  ReachedCreate
    => /\ Cardinality(ItemsOf("product")) = 1
       /\ \A i \in ItemsOf("product") :
            /\ outbound[1].line_items[i].unit_amount =
                 RoundedUnit(PricedSubtotal, Prop(ReqProduct, "quantity"))
            /\ outbound[1].line_items[i].quantity =
                 (IF Prop(ReqProduct, "quantity") \in {Undefined, Num(0)}
                    THEN Num(1) ELSE Prop(ReqProduct, "quantity"))
       /\ FeeItemRight("shipping", Prop(ReqPricing, "shipping"))
       /\ FeeItemRight("insurance", Prop(ReqPricing, "insurance"))
       /\ \A i \in DOMAIN outbound[1].line_items :
            outbound[1].line_items[i].item \in {"product", "shipping", "insurance"}

C10_Witness ==
  /\ ReachedCreate
  /\ Prop(ReqPricing, "subtotal") = Num(1)
  /\ Prop(ReqProduct, "quantity") = Num(MaxQuantity)
  /\ Prop(ReqPricing, "shipping") = Num(1)
  /\ Prop(ReqPricing, "insurance") = Undefined
  /\ Len(outbound[1].line_items) = 2
  /\ outbound[1].line_items[1].unit_amount =
       Num(RoundedCents(1, MaxQuantity))
====
